---- MODULE Spec2Model ----
(***************************************************************************)
(* A model of ScrapeMaster (app/cache_manager.py, app/scraper.py,          *)
(* app/main.py): the TTL cache, the fetch orchestration of                 *)
(* WebScraper.get_html, the per-page pipeline scrape_details, the session  *)
(* WebScraper.scrape with its semaphore-bounded fan-out, and the batch     *)
(* endpoint scrape_urls.                                                   *)
(*                                                                         *)
(* Python values are modelled as follows.  None is the record None.  A     *)
(* string the code inspects character by character (a text, a URL) is a    *)
(* sequence of tokens; an HTML document is an identifier whose parse (the  *)
(* external HTML parser) is given by the tables Title, Text, Hrefs, Imgs.  *)
(* Every value stored in the cache is a record.                            *)
(***************************************************************************)
EXTENDS Integers, Sequences, FiniteSets, TLC

VARIABLES
    now,          \* time.time(), in seconds
    cacheObj,     \* a Cache object: [cache |-> dict, expiry |-> seconds]
    pre,          \* cacheObj as it was before the last cache operation
    last,         \* the last cache operation: [op, key, value, ret]
    \* one call of WebScraper.get_html, task by task
    browser_enabled, \* self.browser_enabled of the scraper the call runs on
    resp,         \* what each strategy returns for the URL if it runs to its end
    slow,         \* whether a strategy needs longer than the global deadline
    tasks,        \* each strategy's task: none, running, done, cancelling, cancelled
    waiter,       \* asyncio.wait's waiter: none, waiting, released
    elapsed,      \* whether the timeout of asyncio.wait has fired
    firstDone,    \* the strategy whose task completed first ("none" so far)
    gpc,          \* where get_html is: idle, selenium, racing, returned
    result,       \* what get_html returned
    \* scrapers and the calls made on them
    scrapers,     \* the WebScraper objects, by number
    calls,        \* the scrape_details calls made directly on scraper 1
    fetched,      \* per scraper, the URLs get_html was called with, in call order
    starts,       \* per scraper, how many times each strategy was started
    \* the endpoint /scrape
    request,      \* the ScrapeRequest: [urls, query, include_images]
    sessions,     \* per URL of the request, its WebScraper.scrape call
    response      \* what scrape_urls answered (None so far)

cacheVars == <<cacheObj, pre, last>>
fetchVars == <<browser_enabled, resp, slow, tasks, waiter, elapsed, firstDone, gpc, result>>
scraperVars == <<scrapers, fetched, starts>>
batchVars == <<request, sessions, response>>

vars == <<now, cacheObj, pre, last,
          browser_enabled, resp, slow, tasks, waiter, elapsed, firstDone, gpc, result,
          scrapers, calls, fetched, starts, request, sessions, response>>

----------------------------------------------------------------------------
(* Bounds of the model. *)

\* the clock stops at MaxTime
MaxTime == 120
\* the clock advances in steps of TickStep seconds
TickStep == 20

\* how many scrape_details calls are made directly on one scraper
MaxCalls == 3
\* how many URLs a batch request holds at most
MaxUrls == 2
\* how many of the link fetches of one session come back empty at most
MaxFailures == 1
\* the anchors and the images of a page given to the extractors alone, and
\* the largest max_links they are called with
MaxAnchors == 3
MaxImgs == 6
MaxCap == 2

\* Cache(expiry=60), the expiry WebScraper.__init__ passes
CACHE_EXPIRY == 60
\* SEM_MAX_CONCURRENT
SEM_MAX_CONCURRENT == 10
\* cleaned_text[:200]
SNIPPET_LEN == 200
\* images[-5:]
IMAGES_KEPT == 5
\* round(score, 8)
SCORE_SCALE == 100000000

None == [none |-> TRUE]

----------------------------------------------------------------------------
(* app/cache_manager.py *)

\* Cache.__init__
CacheNew(expiry) == [cache |-> [k \in {} |-> None], expiry |-> expiry]

\* a set that forgets the expiry
CacheSetNoTtl(c, key, value, t) ==
    [c EXCEPT !.cache = [k \in DOMAIN c.cache \cup {key} |->
                            IF k = key THEN <<value, t>> ELSE c.cache[k]]]

\* self.cache[key] = (value, time.time() + self.expiry)
CacheSet(c, key, value, t) ==
    [c EXCEPT !.cache = [k \in DOMAIN c.cache \cup {key} |->
                            IF k = key THEN <<value, t + c.expiry>>
                                       ELSE c.cache[k]]]

\* del self.cache[key]
DictDel(d, key) == [k \in DOMAIN d \ {key} |-> d[k]]

\* a get that still serves an entry at the moment it expires
CacheGetLate(c, key, t) ==
    IF key \in DOMAIN c.cache
    THEN IF t <= c.cache[key][2]
         THEN [ret |-> c.cache[key][1], obj |-> c]
         ELSE [ret |-> None, obj |-> [c EXCEPT !.cache = DictDel(c.cache, key)]]
    ELSE [ret |-> None, obj |-> c]

\* Cache.get: the pair of the returned value and the cache afterwards
CacheGet(c, key, t) ==
    IF key \in DOMAIN c.cache
    THEN IF t < c.cache[key][2]
         THEN [ret |-> c.cache[key][1], obj |-> c]
         ELSE [ret |-> None, obj |-> [c EXCEPT !.cache = DictDel(c.cache, key)]]
    ELSE [ret |-> None, obj |-> c]

\* Cache.delete
CacheDelete(c, key) ==
    IF key \in DOMAIN c.cache
    THEN [c EXCEPT !.cache = DictDel(c.cache, key)]
    ELSE c

\* a sweep that keeps an entry at the moment it expires
CacheClearExpiredLate(c, t) ==
    LET keys_to_delete == {k \in DOMAIN c.cache : t > c.cache[k][2]}
    IN  [c EXCEPT !.cache = [k \in DOMAIN c.cache \ keys_to_delete |-> c.cache[k]]]

\* Cache.clear_expired
CacheClearExpired(c, t) ==
    LET keys_to_delete == {k \in DOMAIN c.cache : t >= c.cache[k][2]}
    IN  [c EXCEPT !.cache = [k \in DOMAIN c.cache \ keys_to_delete |-> c.cache[k]]]

----------------------------------------------------------------------------
(* The cache alone: any sequence of set, get, delete, clear_expired and    *)
(* clock advances on one Cache(expiry=60).                                 *)

\* the keys and values the operations are called with
CacheKeys == {<<"a.com">>, <<"b.com", "dir">>}
CacheValues == {[text |-> <<"a">>, length |-> 1], [text |-> <<>>, length |-> 0]}

\* the record of an operation: had tells whether the key had an entry before
\* it, prev is the operation before it
NoOp ==
    [op |-> "none", key |-> <<>>, value |-> None, ret |-> None, had |-> FALSE,
     prev |-> [op |-> "none", key |-> <<>>, value |-> None, had |-> FALSE]]

Op(op, key, value, ret) ==
    [op |-> op, key |-> key, value |-> value, ret |-> ret,
     had |-> key \in DOMAIN cacheObj.cache,
     prev |-> [op |-> last.op, key |-> last.key, value |-> last.value, had |-> last.had]]

InitCacheVars ==
    /\ cacheObj = CacheNew(CACHE_EXPIRY)
    /\ pre = CacheNew(CACHE_EXPIRY)
    /\ last = NoOp

DoSet(k, v) ==
    /\ cacheObj' = CacheSet(cacheObj, k, v, now)
    /\ pre' = cacheObj
    /\ last' = Op("set", k, v, None)
    /\ UNCHANGED now

DoGet(k) ==
    /\ cacheObj' = CacheGet(cacheObj, k, now).obj
    /\ pre' = cacheObj
    /\ last' = Op("get", k, None, CacheGet(cacheObj, k, now).ret)
    /\ UNCHANGED now

DoDelete(k) ==
    /\ cacheObj' = CacheDelete(cacheObj, k)
    /\ pre' = cacheObj
    /\ last' = Op("delete", k, None, None)
    /\ UNCHANGED now

DoClearExpired ==
    /\ cacheObj' = CacheClearExpired(cacheObj, now)
    /\ pre' = cacheObj
    /\ last' = Op("clear_expired", <<>>, None, None)
    /\ UNCHANGED now

\* time passes
Tick ==
    /\ now + TickStep <= MaxTime
    /\ now' = now + TickStep

TickCache ==
    /\ Tick
    /\ pre' = cacheObj
    /\ last' = Op("tick", <<>>, None, None)
    /\ UNCHANGED cacheObj

----------------------------------------------------------------------------
(* Strings, URLs and documents.                                            *)

\* r'\s': the whitespace tokens
Whitespace == {" ", "\n"}

RECURSIVE LStrip(_)
LStrip(t) == IF t # <<>> /\ Head(t) \in Whitespace THEN LStrip(Tail(t)) ELSE t

RECURSIVE RStrip(_)
RStrip(t) ==
    IF t # <<>> /\ t[Len(t)] \in Whitespace THEN RStrip(SubSeq(t, 1, Len(t) - 1)) ELSE t

\* str.strip()
Strip(t) == RStrip(LStrip(t))

\* re.sub(r'\s+', ' ', t): every run of whitespace becomes one space
RECURSIVE CollapseWs(_)
CollapseWs(t) ==
    IF t = <<>> THEN <<>>
    ELSE IF Head(t) \in Whitespace
         THEN <<" ">> \o CollapseWs(LStrip(t))
         ELSE <<Head(t)>> \o CollapseWs(Tail(t))

\* re.sub(r'\s+', ' ', text).strip()
Clean(t) == Strip(CollapseWs(t))

\* str.startswith
StartsWith(t, prefix) ==
    /\ Len(prefix) <= Len(t)
    /\ SubSeq(t, 1, Len(prefix)) = prefix

\* "x" in t, for a one-token x
Contains(t, x) == \E i \in 1..Len(t) : t[i] = x

\* urllib.parse.urljoin(base, ref): a URL is its host followed by its path
\* segments; an absolute reference replaces the base, a relative one replaces
\* the last path segment of the base
UrlJoin(base, href) ==
    IF href.abs THEN href.ref
    ELSE IF Len(base) <= 1 THEN base \o href.ref
         ELSE SubSeq(base, 1, Len(base) - 1) \o href.ref

Abs(ref) == [abs |-> TRUE, ref |-> ref]
Rel(ref) == [abs |-> FALSE, ref |-> ref]

\* the number of anchors of the document "hub"
HubLinks == 11

HubUrl == <<"a.com">>
PageUrl == <<"b.com", "dir">>
ShellUrl == <<"c.com">>

\* BeautifulSoup(html, 'html.parser'): soup.title and soup.title.string
HasTitle(h) == h \in {"page", "hub"}
TitleString(h) ==
    CASE h = "page" -> <<" ", "T", "\n">>
      [] h = "hub" -> <<"H">>
      [] OTHER -> <<>>

\* the text nodes of the document, in document order
TextNodes(h) ==
    CASE h = "page" -> << <<" ", "T", "\n">>, <<"\n", " ">>, <<"a", " ", "\n", "b", " ">> >>
      [] h = "hub" -> << <<"H">>, <<"h">> >>
      [] h = "leaf" -> << <<"l", " ", "l">> >>
      [] h = "shell" -> << <<"\n", " ">> >>
      [] OTHER -> <<>>

\* soup.find_all('a', href=True): the href of every anchor that has one
Hrefs(h) ==
    CASE h = "hub" -> [j \in 1..HubLinks |-> Rel(<<ToString(j)>>)]
      [] h = "page" -> << Rel(<<"x">>), Abs(<<"b.com", "dir", "y">>), Abs(<<"x.org">>),
                          Abs(<<"b.com", "dir", "y">>), Abs(<<"b.com", "dir", "z", "#", "top">>) >>
      [] OTHER -> <<>>

\* soup.find_all('img'): img.get('src') of every image (None: [src |-> FALSE])
NoSrc == [src |-> FALSE, abs |-> FALSE, ref |-> <<>>]
Src(href) == [src |-> TRUE, abs |-> href.abs, ref |-> href.ref]
Imgs(h) ==
    CASE h = "page" -> << Src(Rel(<<"1", ".png">>)), Src(Rel(<<"LOGO", ".png">>)), NoSrc,
                          Src(Abs(<<"x.org", "2", ".SVG">>)), Src(Rel(<<"3", ".png">>)),
                          Src(Rel(<<"4", ".png">>)), Src(Rel(<<"5", ".png">>)),
                          Src(Rel(<<"6", ".png">>)), Src(Rel(<<"my", "icon">>)),
                          Src(Rel(<<"7", ".png">>)) >>
      [] h = "hub" -> << Src(Rel(<<"h", ".png">>)) >>
      [] OTHER -> <<>>

\* the document a site serves at a URL
Web(url) ==
    CASE url = HubUrl -> "hub"
      [] url = PageUrl -> "page"
      [] url = ShellUrl -> "shell"
      [] OTHER -> "leaf"

\* soup.get_text(): the text nodes one after the other
RECURSIVE Concat(_)
Concat(nodes) == IF nodes = <<>> THEN <<>> ELSE Head(nodes) \o Concat(Tail(nodes))

\* soup.get_text(separator=' ', strip=True): the stripped text nodes that are
\* not empty, joined by a space
RECURSIVE JoinStripped(_)
JoinStripped(nodes) ==
    IF nodes = <<>> THEN <<>>
    ELSE LET first == Strip(Head(nodes))
             rest == JoinStripped(Tail(nodes))
         IN  IF first = <<>> THEN rest
             ELSE IF rest = <<>> THEN first
             ELSE first \o <<" ">> \o rest

----------------------------------------------------------------------------
(* app/scraper.py: the functions of a page.                                *)

\* the matching blocks of a and b: [i, j, k] with a[i..i+k-1] = b[j..j+k-1]
MatchingBlocks(a, b) ==
    {m \in [i : 1..Len(a), j : 1..Len(b), k : 1..Len(a)] :
        /\ m.i + m.k - 1 <= Len(a)
        /\ m.j + m.k - 1 <= Len(b)
        /\ SubSeq(a, m.i, m.i + m.k - 1) = SubSeq(b, m.j, m.j + m.k - 1)}

\* SequenceMatcher.find_longest_match: the longest block, of those the one
\* starting earliest in a, of those the one starting earliest in b
LongestMatch(a, b) ==
    CHOOSE m \in MatchingBlocks(a, b) :
        \A o \in MatchingBlocks(a, b) :
            \/ o.k < m.k
            \/ o.k = m.k /\ o.i > m.i
            \/ o.k = m.k /\ o.i = m.i /\ o.j >= m.j

\* the number of matched elements SequenceMatcher finds: the longest block,
\* then the same to its left and to its right
RECURSIVE Matched(_, _)
Matched(a, b) ==
    IF MatchingBlocks(a, b) = {} THEN 0
    ELSE LET m == LongestMatch(a, b)
         IN  m.k + Matched(SubSeq(a, 1, m.i - 1), SubSeq(b, 1, m.j - 1))
                 + Matched(SubSeq(a, m.i + m.k, Len(a)), SubSeq(b, m.j + m.k, Len(b)))

\* compute_similarity, then round(score, 8): the ratio 2*M/T in units of 1e-8
compute_similarity(text1, text2) ==
    LET total == Len(text1) + Len(text2)
    IN  IF total = 0 THEN SCORE_SCALE
        ELSE (4 * Matched(text1, text2) * SCORE_SCALE + total) \div (2 * total)

\* the PageDetail scrape_details builds from a fetched document
DetailOf(url, html, query) ==
    LET title == IF HasTitle(html) THEN Strip(TitleString(html)) ELSE <<>>
        text == JoinStripped(TextNodes(html))
        cleaned_text == Clean(text)
        snippet == IF Len(cleaned_text) > SNIPPET_LEN
                   THEN SubSeq(cleaned_text, 1, SNIPPET_LEN) \o <<"...">>
                   ELSE cleaned_text
        score == IF query # <<>> THEN compute_similarity(query, cleaned_text) ELSE 0
    IN  [title |-> title, url |-> url, content |-> snippet, score |-> score,
         raw_content |-> cleaned_text]

\* the PageDetail scrape_details returns for an empty fetch
EmptyDetail(url) ==
    [title |-> <<>>, url |-> url, content |-> <<>>, score |-> 0, raw_content |-> <<>>]

\* max_links=None
NoCap == 0

\* the loop of extract_links over the anchors: links is the set collected so
\* far, kept in the order of discovery
RECURSIVE LinkLoop(_, _, _, _)
LinkLoop(hrefs, links, domain, max_links) ==
    IF hrefs = <<>> THEN links
    ELSE IF max_links # NoCap /\ Len(links) >= max_links THEN links
    ELSE LET link == UrlJoin(domain, Head(hrefs))
             keep == /\ StartsWith(link, domain)
                     /\ ~Contains(link, "#")
                     /\ ~Contains(links, link)
         IN  LinkLoop(Tail(hrefs), IF keep THEN Append(links, link) ELSE links,
                      domain, max_links)

\* extract_links once get_html has returned html (max_time is None)
LinksOf(html, domain, max_links) ==
    IF html = "" THEN <<>> ELSE LinkLoop(Hrefs(html), <<>>, domain, max_links)

\* str.lower()
Lower(tok) ==
    CASE tok = "LOGO" -> "logo"
      [] tok = ".SVG" -> ".svg"
      [] OTHER -> tok

\* the loop of extract_images over the img elements
RECURSIVE ImageLoop(_, _, _)
ImageLoop(imgs, images, base_url) ==
    IF imgs = <<>> THEN images
    ELSE LET img == Head(imgs)
             full_url == UrlJoin(base_url, img)
             lower_url == [i \in 1..Len(full_url) |-> Lower(full_url[i])]
             valid == /\ img.src
                      /\ ~(lower_url # <<>> /\ lower_url[Len(lower_url)] = ".svg")
                      /\ ~\E keyword \in {"logo", "icon"} : Contains(lower_url, keyword)
         IN  ImageLoop(Tail(imgs), IF valid THEN Append(images, full_url) ELSE images,
                       base_url)

\* images[:5]
FirstImages(images) ==
    IF Len(images) <= IMAGES_KEPT THEN images ELSE SubSeq(images, 1, IMAGES_KEPT)

\* images[-5:]
LastImages(images) ==
    IF Len(images) <= IMAGES_KEPT THEN images
    ELSE SubSeq(images, Len(images) - IMAGES_KEPT + 1, Len(images))

\* extract_images
extract_images(html, base_url) ==
    IF html = "" THEN <<>> ELSE LastImages(ImageLoop(Imgs(html), <<>>, base_url))

----------------------------------------------------------------------------
(* The extractors on what the parser finds in a page: the calls of         *)
(* extract_links from "soup = BeautifulSoup(html, 'html.parser')" on, and  *)
(* the images of scrape.                                                   *)

\* the anchors and the images a page may have
HrefPool ==
    {Rel(<<"x">>), Abs(<<"a.com", "x">>), Abs(<<"b.com", "dir", "y">>), Abs(<<"x.org">>),
     Rel(<<"z", "#", "top">>)}
GoodImgs == {Src(Rel(<<"1", ".png">>)), Src(Abs(<<"x.org", "2", ".png">>))}
BadImgs ==
    {Src(Rel(<<"LOGO", ".png">>)), Src(Rel(<<"my", "icon">>)),
     Src(Abs(<<"x.org", "2", ".SVG">>)), NoSrc}

\* the sequences over S of length n at most
SeqsUpTo(S, n) == UNION {[1..k -> S] : k \in 0..n}

\* the argument max_links: None, or an int
NoMaxLinks == [given |-> FALSE, n |-> 0]
MaxLinks(n) == [given |-> TRUE, n |-> n]

\* "max_links and ...": None and 0 are both false
Falsy(max_links) == ~max_links.given \/ max_links.n = 0

\* extract_links(url, domain, max_links) after get_html returned a page with
\* the anchors hrefs
ExtractLinksCall(hrefs, domain, max_links) ==
    /\ calls = <<>>
    /\ calls' = << [op |-> "extract_links", hrefs |-> hrefs, domain |-> domain,
                    max_links |-> max_links,
                    ret |-> LinkLoop(hrefs, <<>>, domain,
                                     IF Falsy(max_links) THEN NoCap ELSE max_links.n)] >>

\* scrape: images = self.extract_images(html, url) if self.include_images
\* else [], for a page with the img elements imgs
ScrapeImagesCall(imgs, base_url, include_images) ==
    /\ calls = <<>>
    /\ calls' = << [op |-> "images", imgs |-> imgs, base_url |-> base_url,
                    include_images |-> include_images,
                    ret |-> IF include_images
                            THEN LastImages(ImageLoop(imgs, <<>>, base_url))
                            ELSE <<>>] >>

----------------------------------------------------------------------------
(* app/scraper.py: WebScraper.get_html, one call, task by task.            *)
(*                                                                         *)
(* A strategy (get_html_using_splash, get_html_using_selenium,             *)
(* fallback_get_html) catches every Exception and returns "" for it, so    *)
(* all it hands to get_html is a string: resp[s].  A strategy reads and    *)
(* writes nothing of the scraper.                                          *)

EmptyHtml == ""
\* the documents a strategy may return (parsed by the tables further down)
Documents == {"page", "shell"}
Strategies == {"splash", "selenium", "fallback"}
\* tasks = {"splash": ..., "fallback": ...}
Raced == {"splash", "fallback"}

\* the strategies one get_html call starts
GetHtmlStarts(enabled) == IF enabled THEN {"selenium"} ELSE Raced

InitFetchVars ==
    /\ browser_enabled \in BOOLEAN
    /\ resp \in [Strategies -> Documents \cup {EmptyHtml}]
    /\ slow \in [Strategies -> BOOLEAN]
    /\ slow["selenium"] = FALSE
    /\ tasks = [s \in Strategies |-> "none"]
    /\ waiter = "none"
    /\ elapsed = FALSE
    /\ firstDone = "none"
    /\ gpc = "idle"
    /\ result = EmptyHtml

\* get_html up to its first await: the Selenium call, or the two tasks and
\* asyncio.wait(..., return_when=FIRST_COMPLETED, timeout=12)
GetHtmlStart ==
    /\ gpc = "idle"
    /\ tasks' = [s \in Strategies |->
                    IF s \in GetHtmlStarts(browser_enabled) THEN "running" ELSE tasks[s]]
    /\ IF browser_enabled
       THEN /\ gpc' = "selenium"
            /\ UNCHANGED waiter
       ELSE /\ gpc' = "racing"
            /\ waiter' = "waiting"
    /\ UNCHANGED <<browser_enabled, resp, slow, elapsed, firstDone, result>>

\* a strategy's task runs to its end (a slow one only after the deadline);
\* its done-callback releases the waiter of asyncio.wait
StrategyCompletes(s) ==
    /\ tasks[s] = "running"
    /\ slow[s] => elapsed
    /\ tasks' = [tasks EXCEPT ![s] = "done"]
    /\ firstDone' = IF firstDone = "none" THEN s ELSE firstDone
    /\ waiter' = IF waiter = "waiting" THEN "released" ELSE waiter
    /\ UNCHANGED <<browser_enabled, resp, slow, elapsed, gpc, result>>

\* an asyncio.wait without timeout: the deadline passes and nobody is woken
WaitNoTimeout ==
    /\ gpc = "racing"
    /\ waiter = "waiting"
    /\ \A s \in Raced : tasks[s] = "running" => slow[s]
    /\ ~elapsed
    /\ elapsed' = TRUE
    /\ UNCHANGED <<browser_enabled, resp, slow, tasks, waiter, firstDone, gpc, result>>

\* timeout=12: no task has completed when the deadline comes
WaitTimeout ==
    /\ gpc = "racing"
    /\ waiter = "waiting"
    /\ \A s \in Raced : tasks[s] = "running" => slow[s]
    /\ elapsed' = TRUE
    /\ waiter' = "released"
    /\ UNCHANGED <<browser_enabled, resp, slow, tasks, firstDone, gpc>>
    /\ UNCHANGED result

\* the results "for task in done: ... if candidate: result = candidate; break"
\* can end with: done is a set, iterated in no particular order
Candidates(done) ==
    IF \E s \in done : resp[s] # EmptyHtml
    THEN {resp[s] : s \in {d \in done : resp[d] # EmptyHtml}}
    ELSE {EmptyHtml}

\* get_html resumes from asyncio.wait: done and pending are the tasks as they
\* are now; pending ones are cancelled, the result is picked from done
WaitReturns ==
    /\ gpc = "racing"
    /\ waiter = "released"
    /\ LET done == {s \in Raced : tasks[s] = "done"}
           pending == {s \in Raced : tasks[s] = "running"}
       IN  /\ tasks' = [s \in Strategies |-> IF s \in pending THEN "cancelling" ELSE tasks[s]]
           /\ result' \in Candidates(done)
    /\ gpc' = "returned"
    /\ waiter' = "none"
    /\ UNCHANGED <<browser_enabled, resp, slow, elapsed, firstDone>>

\* return await self.get_html_using_selenium(url)
SeleniumReturns ==
    /\ gpc = "selenium"
    /\ tasks["selenium"] = "done"
    /\ result' = resp["selenium"]
    /\ gpc' = "returned"
    /\ UNCHANGED <<browser_enabled, resp, slow, tasks, waiter, elapsed, firstDone>>

\* a cancelled task ends: CancelledError is raised inside the strategy at its
\* await; the strategy has nothing to write back
CancelledTaskEnds(s) ==
    /\ tasks[s] = "cancelling"
    /\ tasks' = [tasks EXCEPT ![s] = "cancelled"]
    /\ UNCHANGED <<browser_enabled, resp, slow, waiter, elapsed, firstDone, gpc, result>>

----------------------------------------------------------------------------
(* app/scraper.py: WebScraper objects and scrape_details.  Here, and in    *)
(* the sessions below, a get_html call is two steps: it starts its         *)
(* strategies, and it returns.  What it returns is the empty string or the *)
(* document the site serves at the URL.                                    *)

\* WebScraper.__init__; semaphore is the value of the asyncio.Semaphore
ScraperNew(query, include_images, enabled) ==
    [cache |-> CacheNew(CACHE_EXPIRY), query |-> query, include_images |-> include_images,
     browser_enabled |-> enabled, semaphore |-> SEM_MAX_CONCURRENT]

\* what get_html(url) can return
GetHtmlResults(url) == {EmptyHtml, Web(url)}

\* get_html(url) is called on scraper i: its strategies start
BeginGetHtml(i, url) ==
    /\ fetched' = [fetched EXCEPT ![i] = Append(@, url)]
    /\ starts' = [starts EXCEPT ![i] =
                     [s \in Strategies |->
                        @[s] + IF s \in GetHtmlStarts(scrapers[i].browser_enabled)
                               THEN 1 ELSE 0]]

\* a scrape_details that does not look into the cache
ScrapeDetailsEnterBlind(scraper, url, t) ==
    [cached |-> None, scraper |-> scraper]

\* scrape_details up to "html = await self.get_html(url)": the cache lookup
ScrapeDetailsEnter(scraper, url, t) ==
    LET got == CacheGet(scraper.cache, url, t)
    IN  [cached |-> got.ret, scraper |-> [scraper EXCEPT !.cache = got.obj]]

\* scrape_details from the return of get_html to its own return
ScrapeDetailsFinish(scraper, url, html, t) ==
    IF html = ""
    THEN [ret |-> EmptyDetail(url), scraper |-> scraper]
    ELSE LET built == DetailOf(url, html, scraper.query)
         IN  [ret |-> built,
              scraper |-> [scraper EXCEPT !.cache = CacheSet(@, url, built, t)]]

\* the URLs scrape_details is called with
DetailUrls == {ShellUrl, <<"b.com", "dir", "y">>}
Queries == {<<>>, <<"l">>}

InitScraperVars ==
    /\ scrapers \in {<<ScraperNew(q, FALSE, e)>> : q \in Queries, e \in BOOLEAN}
    /\ fetched = << <<>> >>
    /\ starts = << [s \in Strategies |-> 0] >>

\* a call: its URL, where it is, what it returned, the document get_html gave
\* it, and how many get_html calls and renderer (Selenium) runs it made
NewCall(url) ==
    [url |-> url, pc |-> "fetching", ret |-> None, html |-> "", gets |-> 0, renderer |-> 0]

\* a scrape_details that joins a fetch of the same URL already under way
\* instead of starting its own
CallScrapeDetailsSingleFlight(url) ==
    /\ Len(calls) < MaxCalls
    /\ LET entered == ScrapeDetailsEnter(scrapers[1], url, now)
           joins == \E c \in 1..Len(calls) : calls[c].url = url /\ calls[c].pc = "fetching"
       IN  /\ scrapers' = [scrapers EXCEPT ![1] = entered.scraper]
           /\ IF entered.cached # None
              THEN /\ calls' = Append(calls, [NewCall(url) EXCEPT !.pc = "done",
                                                                  !.ret = entered.cached])
                   /\ UNCHANGED <<fetched, starts>>
              ELSE IF joins
              THEN /\ calls' = Append(calls, NewCall(url))
                   /\ UNCHANGED <<fetched, starts>>
              ELSE /\ calls' = Append(calls,
                        [NewCall(url) EXCEPT
                            !.gets = 1,
                            !.renderer = IF scrapers[1].browser_enabled THEN 1 ELSE 0])
                   /\ BeginGetHtml(1, url)
    /\ UNCHANGED now

\* scrape_details(url) is called on scraper 1 and runs to its first await, or
\* to its return on a cache hit
CallScrapeDetails(url) ==
    /\ Len(calls) < MaxCalls
    /\ LET entered == ScrapeDetailsEnter(scrapers[1], url, now)
       IN  /\ scrapers' = [scrapers EXCEPT ![1] = entered.scraper]
           /\ IF entered.cached # None
              THEN /\ calls' = Append(calls, [NewCall(url) EXCEPT !.pc = "done",
                                                                  !.ret = entered.cached])
                   /\ UNCHANGED <<fetched, starts>>
              ELSE /\ calls' = Append(calls,
                        [NewCall(url) EXCEPT
                            !.gets = 1,
                            !.renderer = IF scrapers[1].browser_enabled THEN 1 ELSE 0])
                   /\ BeginGetHtml(1, url)
    /\ UNCHANGED now

\* a scrape_details that, given a document without text by the race, runs the
\* renderer once more before it finishes
ScrapeDetailsSelfHeals(c, html) ==
    /\ calls[c].pc = "fetching"
    /\ html \in GetHtmlResults(calls[c].url)
    /\ IF /\ html # ""
          /\ Clean(JoinStripped(TextNodes(html))) = <<>>
          /\ calls[c].renderer = 0
       THEN /\ calls' = [calls EXCEPT ![c] = [@ EXCEPT !.gets = @ + 1, !.renderer = 1]]
            /\ fetched' = [fetched EXCEPT ![1] = Append(@, calls[c].url)]
            /\ starts' = [starts EXCEPT ![1] = [@ EXCEPT !["selenium"] = @ + 1]]
            /\ UNCHANGED scrapers
       ELSE LET finished == ScrapeDetailsFinish(scrapers[1], calls[c].url, html, now)
            IN  /\ scrapers' = [scrapers EXCEPT ![1] = finished.scraper]
                /\ calls' = [calls EXCEPT ![c] = [@ EXCEPT !.pc = "done",
                                                            !.ret = finished.ret,
                                                            !.html = html]]
                /\ UNCHANGED <<fetched, starts>>
    /\ UNCHANGED now

\* get_html returns html to call c, which runs to its return
ScrapeDetailsResumes(c, html) ==
    /\ calls[c].pc = "fetching"
    /\ html \in GetHtmlResults(calls[c].url)
    /\ LET finished == ScrapeDetailsFinish(scrapers[1], calls[c].url, html, now)
       IN  /\ scrapers' = [scrapers EXCEPT ![1] = finished.scraper]
           /\ calls' = [calls EXCEPT ![c] = [@ EXCEPT !.pc = "done",
                                                       !.ret = finished.ret,
                                                       !.html = html]]
    /\ UNCHANGED <<now, fetched, starts>>

\* the pair (cleaned, len(cleaned)), and the pair (None, 0)
TextPair(cleaned) == [text |-> cleaned, length |-> Len(cleaned)]
NoTextPair == [text_is_none |-> TRUE, length |-> 0]

\* scrape_text from the return of get_html to its own return
ScrapeTextFinish(scraper, url, html, t) ==
    IF html = ""
    THEN [ret |-> NoTextPair, scraper |-> scraper]
    ELSE LET cleaned == Clean(Concat(TextNodes(html)))
         IN  [ret |-> TextPair(cleaned),
              scraper |-> [scraper EXCEPT !.cache = CacheSet(@, url, TextPair(cleaned), t)]]

\* a scrape_text call
NewTextCall(url) ==
    [op |-> "scrape_text", url |-> url, pc |-> "fetching_text", ret |-> None, html |-> "",
     gets |-> 0, renderer |-> 0]

\* scrape_text(url) is called on scraper 1 and runs to its first await, or to
\* its return on a cache hit; its cache lookup is that of scrape_details
CallScrapeText(url) ==
    /\ Len(calls) < MaxCalls
    /\ LET entered == ScrapeDetailsEnter(scrapers[1], url, now)
       IN  /\ scrapers' = [scrapers EXCEPT ![1] = entered.scraper]
           /\ IF entered.cached # None
              THEN /\ calls' = Append(calls, [NewTextCall(url) EXCEPT !.pc = "done",
                                                                      !.ret = entered.cached])
                   /\ UNCHANGED <<fetched, starts>>
              ELSE /\ calls' = Append(calls,
                        [NewTextCall(url) EXCEPT
                            !.gets = 1,
                            !.renderer = IF scrapers[1].browser_enabled THEN 1 ELSE 0])
                   /\ BeginGetHtml(1, url)
    /\ UNCHANGED now

\* get_html returns html to the scrape_text call c, which runs to its return
ScrapeTextResumes(c, html) ==
    /\ calls[c].pc = "fetching_text"
    /\ html \in GetHtmlResults(calls[c].url)
    /\ LET finished == ScrapeTextFinish(scrapers[1], calls[c].url, html, now)
       IN  /\ scrapers' = [scrapers EXCEPT ![1] = finished.scraper]
           /\ calls' = [calls EXCEPT ![c] = [@ EXCEPT !.pc = "done",
                                                       !.ret = finished.ret,
                                                       !.html = html]]
    /\ UNCHANGED <<now, fetched, starts>>

----------------------------------------------------------------------------
(* app/scraper.py: WebScraper.scrape, and app/main.py: scrape_urls.        *)
(*                                                                         *)
(* The tasks of one session are those of a single-threaded event loop:     *)
(* the safe_scrape tasks take their first step in the order of their       *)
(* creation, before any fetch of the session comes back, and the waiters   *)
(* of the semaphore are woken first come, first served.  links is          *)
(* list(set): its order is the order of discovery here, the tasks being    *)
(* alike but for their URL.                                                *)

\* a scrape call: where it is, its start_time, the seed page's html, images,
\* links, the safe_scrape tasks (one per link) and the returned value
NewSession ==
    [pc |-> "created", start_time |-> 0, html |-> "", images |-> <<>>, links |-> <<>>,
     tasks |-> <<>>, result |-> None]

\* a safe_scrape task: new, waiting (for the semaphore), fetching (inside
\* scrape_details, awaiting get_html) or done; html is what get_html gave it
NewTask == [pc |-> "new", html |-> "", ret |-> None]

\* f"Unable to retrieve main page content for {url}"
ErrorResult(url) == [error |-> <<"Unable to retrieve main page content for">> \o url]

\* a semaphore that lets every task in
SemNeverLocked(scraper) == FALSE

\* asyncio.Semaphore.locked(), as acquire asks it
SemLocked(scraper) == scraper.semaphore = 0

\* scrape_urls: the request is rejected, or one WebScraper and one scrape
\* call are made per URL and gathered
ScrapeUrlsStart ==
    /\ response = None
    /\ sessions = <<>>
    /\ IF Len(request.urls) = 0
       THEN /\ response' = [status_code |-> 400, detail |-> "No URLs provided to scrape."]
            /\ UNCHANGED <<sessions, scraperVars>>
       ELSE /\ scrapers' = [i \in 1..Len(request.urls) |->
                               ScraperNew(request.query, request.include_images, FALSE)]
            /\ fetched' = [i \in 1..Len(request.urls) |-> <<>>]
            /\ starts' = [i \in 1..Len(request.urls) |-> [s \in Strategies |-> 0]]
            /\ sessions' = [i \in 1..Len(request.urls) |-> NewSession]
            /\ UNCHANGED response
    /\ UNCHANGED <<now, request>>

\* scrape: start_time = time.time(); html = await self.get_html(url)
ScrapeStart(i) ==
    /\ sessions[i].pc = "created"
    /\ sessions' = [sessions EXCEPT ![i] = [@ EXCEPT !.pc = "seed_fetch",
                                                      !.start_time = now]]
    /\ BeginGetHtml(i, request.urls[i])
    /\ UNCHANGED <<now, request, response, scrapers>>

\* a scrape that goes on whatever the seed fetch gave
SeedFetchedUnchecked(i, html) ==
    /\ sessions[i].pc = "seed_fetch"
    /\ html \in GetHtmlResults(request.urls[i])
    /\ sessions' = [sessions EXCEPT ![i] =
           [@ EXCEPT !.pc = "links_fetch",
                     !.html = html,
                     !.images = IF scrapers[i].include_images
                                THEN extract_images(html, request.urls[i]) ELSE <<>>]]
    /\ BeginGetHtml(i, request.urls[i])
    /\ UNCHANGED <<now, request, response, scrapers>>

\* scrape: get_html returns the seed page; on "" the error is returned, else
\* the images are extracted and extract_links calls get_html
SeedFetched(i, html) ==
    /\ sessions[i].pc = "seed_fetch"
    /\ html \in GetHtmlResults(request.urls[i])
    /\ IF html = ""
       THEN /\ sessions' = [sessions EXCEPT ![i] =
                   [@ EXCEPT !.pc = "done", !.result = ErrorResult(request.urls[i])]]
            /\ UNCHANGED <<fetched, starts>>
       ELSE /\ sessions' = [sessions EXCEPT ![i] =
                   [@ EXCEPT !.pc = "links_fetch",
                             !.html = html,
                             !.images = IF scrapers[i].include_images
                                        THEN extract_images(html, request.urls[i])
                                        ELSE <<>>]]
            /\ BeginGetHtml(i, request.urls[i])
    /\ UNCHANGED <<now, request, response, scrapers>>

\* extract_links: get_html returns; the links are collected, and scrape
\* creates one safe_scrape task per link and gathers them
LinksFetched(i, html) ==
    /\ sessions[i].pc = "links_fetch"
    /\ html \in GetHtmlResults(request.urls[i])
    /\ LET links == LinksOf(html, request.urls[i], NoCap)
       IN  sessions' = [sessions EXCEPT ![i] =
               [@ EXCEPT !.pc = "crawl",
                         !.links = links,
                         !.tasks = [j \in 1..Len(links) |-> NewTask]]]
    /\ UNCHANGED <<now, request, response, scraperVars>>

\* safe_scrape with the semaphore acquired: scrape_details up to its first
\* await, or on a cache hit to its return and the release of the semaphore
EnterScrapeDetails(i, j) ==
    LET entered == ScrapeDetailsEnter(scrapers[i], sessions[i].links[j], now)
    IN  IF entered.cached # None
        THEN /\ scrapers' = [scrapers EXCEPT ![i] = entered.scraper]
             /\ sessions' = [sessions EXCEPT ![i].tasks[j] =
                    [@ EXCEPT !.pc = "done", !.ret = entered.cached]]
             /\ UNCHANGED <<fetched, starts>>
        ELSE /\ scrapers' = [scrapers EXCEPT ![i] =
                    [entered.scraper EXCEPT !.semaphore = @ - 1]]
             /\ sessions' = [sessions EXCEPT ![i].tasks[j].pc = "fetching"]
             /\ BeginGetHtml(i, sessions[i].links[j])

\* the first step of task j: "async with self.semaphore" acquires, or waits
SafeScrapeStart(i, j) ==
    /\ sessions[i].pc = "crawl"
    /\ j \in 1..Len(sessions[i].tasks)
    /\ sessions[i].tasks[j].pc = "new"
    /\ \A k \in 1..(j - 1) : sessions[i].tasks[k].pc # "new"
    /\ IF SemLocked(scrapers[i])
       THEN /\ sessions' = [sessions EXCEPT ![i].tasks[j].pc = "waiting"]
            /\ UNCHANGED scraperVars
       ELSE EnterScrapeDetails(i, j)
    /\ UNCHANGED <<now, request, response>>

\* the longest waiting task is woken by a release and acquires
SafeScrapeWakes(i, j) ==
    /\ sessions[i].pc = "crawl"
    /\ j \in 1..Len(sessions[i].tasks)
    /\ sessions[i].tasks[j].pc = "waiting"
    /\ \A k \in 1..(j - 1) : sessions[i].tasks[k].pc # "waiting"
    /\ ~SemLocked(scrapers[i])
    /\ EnterScrapeDetails(i, j)
    /\ UNCHANGED <<now, request, response>>

\* the tasks of session i whose fetch came back empty
EmptyFetches(i) ==
    {k \in 1..Len(sessions[i].tasks) :
        sessions[i].tasks[k].pc = "done" /\ sessions[i].tasks[k].html = ""}

\* get_html returns to task j (with "" for MaxFailures tasks at most):
\* scrape_details runs to its return and the semaphore is released
SafeScrapeFinishes(i, j, html) ==
    /\ sessions[i].pc = "crawl"
    /\ j \in 1..Len(sessions[i].tasks)
    /\ sessions[i].tasks[j].pc = "fetching"
    /\ \A k \in 1..Len(sessions[i].tasks) : sessions[i].tasks[k].pc # "new"
    /\ html \in GetHtmlResults(sessions[i].links[j])
    /\ html = "" => Cardinality(EmptyFetches(i)) < MaxFailures
    /\ LET finished == ScrapeDetailsFinish(scrapers[i], sessions[i].links[j], html, now)
       IN  /\ scrapers' = [scrapers EXCEPT ![i] =
                  [finished.scraper EXCEPT !.semaphore = @ + 1]]
           /\ sessions' = [sessions EXCEPT ![i].tasks[j] =
                  [@ EXCEPT !.pc = "done", !.html = html, !.ret = finished.ret]]
    /\ UNCHANGED <<now, request, response, fetched, starts>>

\* a scrape that goes on as soon as one of its tasks is done
ScrapeReturnsEarly(i) ==
    /\ sessions[i].pc = "crawl"
    /\ \/ sessions[i].tasks = <<>>
       \/ \E j \in 1..Len(sessions[i].tasks) : sessions[i].tasks[j].pc = "done"
    /\ sessions' = [sessions EXCEPT ![i] =
           [@ EXCEPT !.pc = "done",
                     !.result = [query |-> scrapers[i].query,
                                 images |-> sessions[i].images,
                                 results |-> [j \in 1..Len(sessions[i].tasks) |->
                                                sessions[i].tasks[j].ret],
                                 response_time |-> now - sessions[i].start_time]]]
    /\ UNCHANGED <<now, request, response, scraperVars>>

\* details_list = await asyncio.gather(*tasks), and the return of scrape
ScrapeReturns(i) ==
    /\ sessions[i].pc = "crawl"
    /\ \A j \in 1..Len(sessions[i].tasks) : sessions[i].tasks[j].pc = "done"
    /\ sessions' = [sessions EXCEPT ![i] =
           [@ EXCEPT !.pc = "done",
                     !.result = [query |-> scrapers[i].query,
                                 images |-> sessions[i].images,
                                 results |-> [j \in 1..Len(sessions[i].tasks) |->
                                                sessions[i].tasks[j].ret],
                                 response_time |-> now - sessions[i].start_time]]]
    /\ UNCHANGED <<now, request, response, scraperVars>>

\* a gather that answers with the first error alone
GatherFailFast ==
    IF \E i \in 1..Len(sessions) : "error" \in DOMAIN sessions[i].result
    THEN << sessions[CHOOSE i \in 1..Len(sessions) :
                       "error" \in DOMAIN sessions[i].result].result >>
    ELSE [i \in 1..Len(sessions) |-> sessions[i].result]

\* results = await asyncio.gather(*tasks): the results in the order of the tasks
Gather == [i \in 1..Len(sessions) |-> sessions[i].result]

\* scrape_urls: return {"results": results}
ScrapeUrlsReturns ==
    /\ response = None
    /\ sessions # <<>>
    /\ \A i \in 1..Len(sessions) : sessions[i].pc = "done"
    /\ response' = [results |-> Gather]
    /\ UNCHANGED <<now, request, sessions, scraperVars>>

----------------------------------------------------------------------------
(* A session whose get_html calls are run task by task.  tasks, resp, slow *)
(* and the rest of the fetch state are those of the session's latest       *)
(* get_html call; the calls of a page with at most one link follow one     *)
(* another.                                                                *)

\* get_html(url) in race mode up to asyncio.wait: two new tasks; what each
\* of them will return, and whether it needs longer than the deadline, is
\* up to the network
GetHtmlCall(url) ==
    /\ resp' \in {r \in [Strategies -> GetHtmlResults(url)] : r["selenium"] = EmptyHtml}
    /\ slow' \in {f \in [Strategies -> BOOLEAN] : ~f["selenium"]}
    /\ tasks' = [s \in Strategies |-> IF s \in Raced THEN "running" ELSE "none"]
    /\ waiter' = "waiting"
    /\ elapsed' = FALSE
    /\ firstDone' = "none"
    /\ gpc' = "racing"
    /\ result' = EmptyHtml
    /\ UNCHANGED browser_enabled

\* the caller of get_html goes on with what it returned and calls it no more
GetHtmlConsumed ==
    /\ gpc' = "idle"
    /\ UNCHANGED <<browser_enabled, resp, slow, tasks, waiter, elapsed, firstDone, result>>

\* scrape: html = await self.get_html(url)
RaceScrapeStart(i) ==
    /\ gpc = "idle"
    /\ ScrapeStart(i)
    /\ GetHtmlCall(request.urls[i])

\* scrape resumes with the seed page and, unless it is empty, extract_links
\* calls get_html
RaceSeedFetched(i) ==
    /\ gpc = "returned"
    /\ SeedFetched(i, result)
    /\ IF result = EmptyHtml THEN GetHtmlConsumed ELSE GetHtmlCall(request.urls[i])

\* extract_links resumes
RaceLinksFetched(i) ==
    /\ gpc = "returned"
    /\ LinksFetched(i, result)
    /\ GetHtmlConsumed

\* safe_scrape: scrape_details calls get_html on a cache miss
RaceSafeScrapeStart(i, j) ==
    /\ gpc = "idle"
    /\ SafeScrapeStart(i, j)
    /\ IF sessions'[i].tasks[j].pc = "fetching"
       THEN GetHtmlCall(sessions[i].links[j])
       ELSE UNCHANGED fetchVars

\* scrape_details resumes
RaceSafeScrapeFinishes(i, j) ==
    /\ gpc = "returned"
    /\ SafeScrapeFinishes(i, j, result)
    /\ GetHtmlConsumed

----------------------------------------------------------------------------
(* The specifications. *)

IdleFetchVars ==
    /\ browser_enabled = FALSE
    /\ resp = [s \in Strategies |-> EmptyHtml]
    /\ slow = [s \in Strategies |-> FALSE]
    /\ tasks = [s \in Strategies |-> "none"]
    /\ waiter = "none"
    /\ elapsed = FALSE
    /\ firstDone = "none"
    /\ gpc = "idle"
    /\ result = EmptyHtml

IdleScraperVars ==
    /\ scrapers = <<>>
    /\ fetched = <<>>
    /\ starts = <<>>

IdleBatchVars ==
    /\ request = [urls |-> <<>>, query |-> <<>>, include_images |-> FALSE]
    /\ sessions = <<>>
    /\ response = None

\* the cache alone
InitCache ==
    /\ now = 0
    /\ InitCacheVars
    /\ IdleFetchVars
    /\ IdleScraperVars
    /\ IdleBatchVars
    /\ calls = <<>>

NextCache ==
    \/ \E k \in CacheKeys, v \in CacheValues :
          DoSet(k, v) /\ UNCHANGED <<fetchVars, scraperVars, batchVars, calls>>
    \/ \E k \in CacheKeys : DoGet(k) /\ UNCHANGED <<fetchVars, scraperVars, batchVars, calls>>
    \/ \E k \in CacheKeys : DoDelete(k) /\ UNCHANGED <<fetchVars, scraperVars, batchVars, calls>>
    \/ DoClearExpired /\ UNCHANGED <<fetchVars, scraperVars, batchVars, calls>>
    \/ TickCache /\ UNCHANGED <<fetchVars, scraperVars, batchVars, calls>>

SpecCache == InitCache /\ [][NextCache]_vars

\* one get_html call
InitFetch ==
    /\ now = 0
    /\ InitCacheVars
    /\ InitFetchVars
    /\ IdleScraperVars
    /\ IdleBatchVars
    /\ calls = <<>>

NextFetch ==
    \/ GetHtmlStart /\ UNCHANGED <<now, cacheVars, scraperVars, batchVars, calls>>
    \/ \E s \in Strategies :
          StrategyCompletes(s) /\ UNCHANGED <<now, cacheVars, scraperVars, batchVars, calls>>
    \/ WaitTimeout /\ UNCHANGED <<now, cacheVars, scraperVars, batchVars, calls>>
    \/ WaitReturns /\ UNCHANGED <<now, cacheVars, scraperVars, batchVars, calls>>
    \/ SeleniumReturns /\ UNCHANGED <<now, cacheVars, scraperVars, batchVars, calls>>
    \/ \E s \in Strategies :
          CancelledTaskEnds(s) /\ UNCHANGED <<now, cacheVars, scraperVars, batchVars, calls>>

SpecFetch == InitFetch /\ [][NextFetch]_vars

\* scrape_details calls on one scraper, overlapping or not, as time passes
InitDetail ==
    /\ now = 0
    /\ InitCacheVars
    /\ IdleFetchVars
    /\ InitScraperVars
    /\ IdleBatchVars
    /\ calls = <<>>

NextDetail ==
    \/ \E u \in DetailUrls : CallScrapeDetails(u) /\ UNCHANGED <<cacheVars, fetchVars, batchVars>>
    \/ \E c \in 1..Len(calls), h \in Documents \cup {"leaf", EmptyHtml} :
          ScrapeDetailsResumes(c, h) /\ UNCHANGED <<cacheVars, fetchVars, batchVars>>
    \/ Tick /\ UNCHANGED <<cacheVars, fetchVars, scraperVars, batchVars, calls>>

SpecDetail == InitDetail /\ [][NextDetail]_vars

\* scrape_text and scrape_details calls on one scraper, overlapping or not,
\* within the expiry of its cache
InitText ==
    /\ now = 0
    /\ InitCacheVars
    /\ IdleFetchVars
    /\ InitScraperVars
    /\ IdleBatchVars
    /\ calls = <<>>

NextText ==
    \/ \E u \in DetailUrls : CallScrapeDetails(u) /\ UNCHANGED <<cacheVars, fetchVars, batchVars>>
    \/ \E c \in 1..Len(calls), h \in Documents \cup {"leaf", EmptyHtml} :
          ScrapeDetailsResumes(c, h) /\ UNCHANGED <<cacheVars, fetchVars, batchVars>>
    \/ \E u \in DetailUrls : CallScrapeText(u) /\ UNCHANGED <<cacheVars, fetchVars, batchVars>>
    \/ \E c \in 1..Len(calls), h \in Documents \cup {"leaf", EmptyHtml} :
          ScrapeTextResumes(c, h) /\ UNCHANGED <<cacheVars, fetchVars, batchVars>>

SpecText == InitText /\ [][NextText]_vars

\* one session: a request with one URL
ScrapeRequests ==
    {[urls |-> <<u>>, query |-> <<>>, include_images |-> b] :
        u \in {PageUrl, ShellUrl}, b \in BOOLEAN}
    \cup {[urls |-> <<HubUrl>>, query |-> <<>>, include_images |-> TRUE]}

InitScrape ==
    /\ now = 0
    /\ InitCacheVars
    /\ IdleFetchVars
    /\ IdleScraperVars
    /\ calls = <<>>
    /\ request \in ScrapeRequests
    /\ sessions = <<>>
    /\ response = None

SeedDocuments == {EmptyHtml, "hub", "page", "shell"}

NextScrape ==
    \/ ScrapeUrlsStart /\ UNCHANGED <<cacheVars, fetchVars, calls>>
    \/ \E i \in 1..Len(sessions) :
          ScrapeStart(i) /\ UNCHANGED <<cacheVars, fetchVars, calls>>
    \/ \E i \in 1..Len(sessions), h \in SeedDocuments :
          SeedFetched(i, h) /\ UNCHANGED <<cacheVars, fetchVars, calls>>
    \/ \E i \in 1..Len(sessions), h \in SeedDocuments :
          LinksFetched(i, h) /\ UNCHANGED <<cacheVars, fetchVars, calls>>
    \/ \E i \in 1..Len(sessions), j \in 1..HubLinks :
          SafeScrapeStart(i, j) /\ UNCHANGED <<cacheVars, fetchVars, calls>>
    \/ \E i \in 1..Len(sessions), j \in 1..HubLinks :
          SafeScrapeWakes(i, j) /\ UNCHANGED <<cacheVars, fetchVars, calls>>
    \/ \E i \in 1..Len(sessions), j \in 1..HubLinks, h \in {EmptyHtml, "leaf"} :
          SafeScrapeFinishes(i, j, h) /\ UNCHANGED <<cacheVars, fetchVars, calls>>
    \/ \E i \in 1..Len(sessions) :
          ScrapeReturns(i) /\ UNCHANGED <<cacheVars, fetchVars, calls>>
    \/ ScrapeUrlsReturns /\ UNCHANGED <<cacheVars, fetchVars, calls>>

SpecScrape == InitScrape /\ [][NextScrape]_vars

\* a batch: a request with up to MaxUrls URLs, none of them of a page with
\* more than SEM_MAX_CONCURRENT links, so that no task waits for the semaphore
BatchRequests ==
    {[urls |-> us, query |-> q, include_images |-> b] :
        us \in UNION {[1..n -> {PageUrl, ShellUrl}] : n \in 0..MaxUrls},
        q \in Queries, b \in BOOLEAN}

InitBatch ==
    /\ now = 0
    /\ InitCacheVars
    /\ IdleFetchVars
    /\ IdleScraperVars
    /\ calls = <<>>
    /\ request \in BatchRequests
    /\ sessions = <<>>
    /\ response = None

NextBatch ==
    \/ ScrapeUrlsStart /\ UNCHANGED <<cacheVars, fetchVars, calls>>
    \/ \E i \in 1..Len(sessions) :
          ScrapeStart(i) /\ UNCHANGED <<cacheVars, fetchVars, calls>>
    \/ \E i \in 1..Len(sessions), h \in SeedDocuments :
          SeedFetched(i, h) /\ UNCHANGED <<cacheVars, fetchVars, calls>>
    \/ \E i \in 1..Len(sessions), h \in SeedDocuments :
          LinksFetched(i, h) /\ UNCHANGED <<cacheVars, fetchVars, calls>>
    \/ \E i \in 1..Len(sessions), j \in 1..HubLinks :
          SafeScrapeStart(i, j) /\ UNCHANGED <<cacheVars, fetchVars, calls>>
    \/ \E i \in 1..Len(sessions), j \in 1..HubLinks, h \in {EmptyHtml, "leaf"} :
          SafeScrapeFinishes(i, j, h) /\ UNCHANGED <<cacheVars, fetchVars, calls>>
    \/ \E i \in 1..Len(sessions) :
          ScrapeReturns(i) /\ UNCHANGED <<cacheVars, fetchVars, calls>>
    \/ ScrapeUrlsReturns /\ UNCHANGED <<cacheVars, fetchVars, calls>>

SpecBatch == InitBatch /\ [][NextBatch]_vars

\* one session in race mode on a page of at most one link, every get_html
\* call of it task by task
RaceRequests ==
    {[urls |-> <<u>>, query |-> <<>>, include_images |-> FALSE] : u \in {PageUrl, ShellUrl}}

InitRace ==
    /\ now = 0
    /\ InitCacheVars
    /\ IdleFetchVars
    /\ IdleScraperVars
    /\ calls = <<>>
    /\ request \in RaceRequests
    /\ sessions = <<>>
    /\ response = None

NextRace ==
    \/ ScrapeUrlsStart /\ UNCHANGED <<cacheVars, fetchVars, calls>>
    \/ \E i \in 1..Len(sessions) :
          RaceScrapeStart(i) /\ UNCHANGED <<cacheVars, calls>>
    \/ \E s \in Raced :
          StrategyCompletes(s) /\ UNCHANGED <<now, cacheVars, scraperVars, batchVars, calls>>
    \/ WaitTimeout /\ UNCHANGED <<now, cacheVars, scraperVars, batchVars, calls>>
    \/ WaitReturns /\ UNCHANGED <<now, cacheVars, scraperVars, batchVars, calls>>
    \/ \E s \in Raced :
          CancelledTaskEnds(s) /\ UNCHANGED <<now, cacheVars, scraperVars, batchVars, calls>>
    \/ \E i \in 1..Len(sessions) :
          RaceSeedFetched(i) /\ UNCHANGED <<cacheVars, calls>>
    \/ \E i \in 1..Len(sessions) :
          RaceLinksFetched(i) /\ UNCHANGED <<cacheVars, calls>>
    \/ \E i \in 1..Len(sessions), j \in 1..HubLinks :
          RaceSafeScrapeStart(i, j) /\ UNCHANGED <<cacheVars, calls>>
    \/ \E i \in 1..Len(sessions), j \in 1..HubLinks :
          RaceSafeScrapeFinishes(i, j) /\ UNCHANGED <<cacheVars, calls>>
    \/ \E i \in 1..Len(sessions) :
          ScrapeReturns(i) /\ UNCHANGED <<cacheVars, fetchVars, calls>>
    \/ ScrapeUrlsReturns /\ UNCHANGED <<cacheVars, fetchVars, calls>>

\* the steps the event loop and the clock see to: every step but the
\* completion of a strategy that needs longer than the deadline, which may
\* never come
RaceScheduled ==
    /\ NextRace
    /\ \A s \in Raced : tasks[s] = "running" /\ tasks'[s] = "done" => ~slow[s]

SpecRace == InitRace /\ [][NextRace]_vars /\ WF_vars(RaceScheduled)

\* the extractors alone, on every page of MaxAnchors anchors at most, or of
\* MaxImgs images at most of which those that do not qualify are alike
InitExtract ==
    /\ now = 0
    /\ InitCacheVars
    /\ IdleFetchVars
    /\ IdleScraperVars
    /\ IdleBatchVars
    /\ calls = <<>>

NextExtract ==
    \/ /\ calls = <<>>
       /\ \E hrefs \in SeqsUpTo(HrefPool, MaxAnchors), domain \in {HubUrl, PageUrl},
             max_links \in {NoMaxLinks} \cup {MaxLinks(n) : n \in 0..MaxCap} :
             ExtractLinksCall(hrefs, domain, max_links)
       /\ UNCHANGED <<now, cacheVars, fetchVars, scraperVars, batchVars>>
    \/ /\ calls = <<>>
       /\ \E bad \in BadImgs, include_images \in BOOLEAN :
             \E imgs \in SeqsUpTo(GoodImgs \cup {bad}, MaxImgs) :
                ScrapeImagesCall(imgs, PageUrl, include_images)
       /\ UNCHANGED <<now, cacheVars, fetchVars, scraperVars, batchVars>>

SpecExtract == InitExtract /\ [][NextExtract]_vars

----------------------------------------------------------------------------
(* The cache (SpecCache). *)

\* whether key k has an entry in cache object c that is visible at time t
Live(c, k, t) == k \in DOMAIN c.cache /\ t < c.cache[k][2]

\* whether key k has the same entry, or none, in both cache objects
SameEntry(c, d, k) ==
    /\ k \in DOMAIN c.cache <=> k \in DOMAIN d.cache
    /\ k \in DOMAIN c.cache => c.cache[k] = d.cache[k]

(* C5: get(k) returns the stored value if and only if k has an entry with  *)
(* now < expiresAt; an entry with now >= expiresAt makes get(k) return a   *)
(* miss and is removed; get changes no other key's entry.                  *)
C5_GetVisibility ==
    last.op = "get" =>
        /\ Live(pre, last.key, now) => last.ret = pre.cache[last.key][1] /\ cacheObj = pre
        /\ ~Live(pre, last.key, now) =>
              last.ret = None /\ last.key \notin DOMAIN cacheObj.cache
        /\ last.ret # None <=> Live(pre, last.key, now)
        /\ \A k \in CacheKeys \ {last.key} : SameEntry(pre, cacheObj, k)
        /\ cacheObj.expiry = pre.expiry

\* a get at the very moment its entry expires misses and evicts it, and the
\* other key keeps its entry
C5_Witness ==
    /\ last.op = "get"
    /\ last.key \in DOMAIN pre.cache
    /\ pre.cache[last.key][2] = now
    /\ last.ret = None
    /\ last.key \notin DOMAIN cacheObj.cache
    /\ DOMAIN cacheObj.cache # {}

(* C6: set(k, v) stores (v, now + ttl) under k, replacing any entry of k    *)
(* and leaving the other keys alone, and a get(k) right after set(k, v)    *)
(* returns v.                                                              *)
C6_SetThenGet ==
    /\ last.op = "set" =>
          /\ DOMAIN cacheObj.cache = DOMAIN pre.cache \cup {last.key}
          /\ cacheObj.cache[last.key] = <<last.value, now + CACHE_EXPIRY>>
          /\ \A k \in CacheKeys \ {last.key} : SameEntry(pre, cacheObj, k)
    /\ (last.op = "get" /\ last.prev.op = "set" /\ last.prev.key = last.key) =>
          last.ret = last.prev.value

\* a get right after a set that replaced an entry returns the new value
C6_Witness ==
    /\ last.op = "get"
    /\ last.prev.op = "set"
    /\ last.prev.key = last.key
    /\ last.prev.had
    /\ last.ret = last.prev.value
    /\ pre.cache[last.key][2] = now + CACHE_EXPIRY
    /\ now > 0

(* C7: clear_expired removes exactly the entries with expiresAt <= now and *)
(* leaves every entry with expiresAt > now as it was.                      *)
C7_ClearExpired ==
    last.op = "clear_expired" =>
        /\ DOMAIN cacheObj.cache = {k \in DOMAIN pre.cache : pre.cache[k][2] > now}
        /\ \A k \in DOMAIN cacheObj.cache : cacheObj.cache[k] = pre.cache[k]
        /\ cacheObj.expiry = pre.expiry

\* a sweep at the very moment one entry expires removes it and keeps another
C7_Witness ==
    /\ last.op = "clear_expired"
    /\ \E k \in DOMAIN pre.cache : pre.cache[k][2] = now /\ k \notin DOMAIN cacheObj.cache
    /\ \E k \in DOMAIN cacheObj.cache : cacheObj.cache[k][2] > now

----------------------------------------------------------------------------
(* One get_html call (SpecFetch). *)

(* C1: in race mode, if a raced strategy would return non-empty HTML      *)
(* before the deadline, get_html returns non-empty HTML; a strategy that   *)
(* completes first with an empty result does not end the race.             *)
C1_FirstNonEmptyEndsRace ==
    (gpc = "returned" /\ ~browser_enabled) =>
        ((\E s \in Raced : ~slow[s] /\ resp[s] # EmptyHtml) => result # EmptyHtml)

(* C2: in race mode, when the first strategy to complete returns non-empty *)
(* HTML h before the deadline, get_html returns exactly h and every other  *)
(* task that was still running has been cancelled.                         *)
C2_FirstCompletedWins ==
    (gpc = "returned" /\ ~browser_enabled /\ ~elapsed /\ firstDone # "none") =>
        (resp[firstDone] # EmptyHtml =>
            /\ result = resp[firstDone]
            /\ \A s \in Raced : tasks[s] # "running")

\* the first non-empty answer in the order Splash, Selenium, plain request
TieredResult ==
    IF resp["splash"] # EmptyHtml THEN resp["splash"]
    ELSE IF resp["selenium"] # EmptyHtml THEN resp["selenium"]
    ELSE resp["fallback"]

(* C4: the strategies are tried in the order Splash, Selenium, plain       *)
(* request, each only after the one before it came back empty, and the     *)
(* fetch stops at the first non-empty result: get_html returns the first   *)
(* non-empty answer in that order.                                         *)
C4_TieredFallback ==
    gpc = "returned" =>
        /\ result = TieredResult
        /\ (\E s \in Strategies \ {"splash"} : tasks[s] # "none") =>
              resp["splash"] = EmptyHtml

----------------------------------------------------------------------------
(* scrape_details calls on one scraper (SpecDetail). *)

\* the whitespace-normalized text of a document
CleanedText(html) == Clean(JoinStripped(TextNodes(html)))

\* call c has returned after a fetch, made by a strategy other than the
\* renderer, that gave it a document without text
TextlessByRace(c) ==
    /\ calls[c].pc = "done"
    /\ calls[c].gets > 0
    /\ calls[c].html # ""
    /\ CleanedText(calls[c].html) = <<>>
    /\ ~scrapers[1].browser_enabled

Called == calls'[Len(calls')]

(* C12: a scrape_details(url) called while the cache holds an unexpired    *)
(* PageDetail for url returns that PageDetail unchanged, starts no fetch   *)
(* (no strategy) and writes nothing to the cache.                          *)
C12_CacheHit ==
    [][(/\ Len(calls') = Len(calls) + 1
        /\ Live(scrapers[1].cache, Called.url, now))
       => /\ Called.pc = "done"
          /\ Called.ret = scrapers[1].cache.cache[Called.url][1]
          /\ Called.gets = 0
          /\ Called.renderer = 0
          /\ UNCHANGED <<scrapers, fetched, starts>>]_vars

\* a call answered from the cache some time after the call that filled it,
\* with the entry still there
C12_Witness ==
    \E c \in 1..Len(calls) :
        /\ calls[c].pc = "done"
        /\ calls[c].gets = 0
        /\ now > 0
        /\ Live(scrapers[1].cache, calls[c].url, now)
        /\ calls[c].ret = scrapers[1].cache.cache[calls[c].url][1]
        /\ calls[c].ret.raw_content # <<>>

(* C13: on a cache miss where the fetch returns empty HTML, scrape_details *)
(* returns a PageDetail with all fields empty or zero and stores it in the *)
(* cache, so that the next call for the URL within the TTL is a hit.       *)
C13_EmptyDetailCached ==
    [][\A c \in 1..Len(calls) :
          (/\ calls[c].pc = "fetching"
           /\ calls'[c].pc = "done"
           /\ calls'[c].html = "")
          => /\ calls'[c].ret = EmptyDetail(calls[c].url)
             /\ Live(scrapers'[1].cache, calls[c].url, now')
             /\ scrapers'[1].cache.cache[calls[c].url][1] = EmptyDetail(calls[c].url)]_vars

\* a call for the URL of the call being made is awaiting its fetch
FetchUnderWay ==
    \E c \in 1..Len(calls) : calls[c].url = Called.url /\ calls[c].pc = "fetching"

(* C16: there is no single-flight deduplication.  A scrape_details call    *)
(* made while another call for the same URL is awaiting its fetch, the     *)
(* cache having no live entry of the URL, misses and starts a fetch of its *)
(* own; and every call that comes back with HTML writes the cache,         *)
(* replacing whatever entry the URL had by its own result, the one entry   *)
(* of that URL.                                                            *)
C16_NoSingleFlight ==
    [][/\ (/\ Len(calls') = Len(calls) + 1
           /\ FetchUnderWay
           /\ ~Live(scrapers[1].cache, Called.url, now))
          => /\ Called.pc = "fetching"
             /\ Called.gets = 1
             /\ fetched' = [fetched EXCEPT ![1] = Append(@, Called.url)]
       /\ \A c \in 1..Len(calls) :
             (calls[c].pc = "fetching" /\ calls'[c].pc = "done" /\ calls'[c].html # "")
             => /\ calls[c].url \in DOMAIN scrapers'[1].cache.cache
                /\ scrapers'[1].cache.cache[calls[c].url] =
                      <<calls'[c].ret, now + CACHE_EXPIRY>>
                /\ \A u \in DOMAIN scrapers[1].cache.cache \ {calls[c].url} :
                      SameEntry(scrapers[1].cache, scrapers'[1].cache, u)]_vars

\* two calls for one URL both missed and fetched, both came back with HTML
\* before any time passed, and the cache holds what the later one wrote
C16_Witness ==
    \E c, d \in 1..Len(calls) :
        /\ c < d
        /\ calls[c].url = calls[d].url
        /\ calls[c].pc = "done" /\ calls[d].pc = "done"
        /\ calls[c].gets = 1 /\ calls[d].gets = 1
        /\ calls[c].html # "" /\ calls[d].html # ""
        /\ now = 0
        /\ Len(fetched[1]) = 2
        /\ scrapers[1].cache.cache[calls[c].url] = <<calls[d].ret, CACHE_EXPIRY>>

----------------------------------------------------------------------------
(* scrape_text and scrape_details calls on one scraper (SpecText). *)

\* the shapes of the values the two operations return
IsPageDetail(v) == DOMAIN v = {"title", "url", "content", "score", "raw_content"}
IsTextPair(v) == DOMAIN v \in {{"text", "length"}, {"text_is_none", "length"}}

(* C19: whatever scrape_text and scrape_details calls were made on a       *)
(* scraper, scrape_details returns a PageDetail record and scrape_text a   *)
(* (text, length) pair: neither returns the value the other cached.        *)
C19_ShapesKeptApart ==
    \A c \in 1..Len(calls) :
        calls[c].pc = "done" =>
            IF "op" \in DOMAIN calls[c]
            THEN IsTextPair(calls[c].ret)
            ELSE IsPageDetail(calls[c].ret)

----------------------------------------------------------------------------
(* One session (SpecScrape). *)

\* the seed fetch of session i came back empty
SeedFailed(i) ==
    /\ sessions[i].pc \notin {"created", "seed_fetch"}
    /\ sessions[i].html = ""

(* C8: when the fetch of the seed URL yields empty HTML, scrape returns a  *)
(* value that holds an error field and nothing else, and stops: no link    *)
(* extraction, no detail scrape, no further fetch in that session.         *)
C8_SeedFailureStops ==
    \A i \in 1..Len(sessions) :
        SeedFailed(i) =>
            /\ sessions[i].pc = "done"
            /\ DOMAIN sessions[i].result = {"error"}
            /\ sessions[i].result = ErrorResult(request.urls[i])
            /\ sessions[i].links = <<>>
            /\ sessions[i].tasks = <<>>
            /\ sessions[i].images = <<>>
            /\ fetched[i] = <<request.urls[i]>>
            /\ \A s \in Strategies : starts[i][s] = IF s \in Raced THEN 1 ELSE 0
            /\ DOMAIN scrapers[i].cache.cache = {}
            /\ scrapers[i].semaphore = SEM_MAX_CONCURRENT

\* the seed fetch of a request for images failed, and the endpoint has
\* answered with the error alone
C8_Witness ==
    /\ response # None
    /\ "results" \in DOMAIN response
    /\ request.include_images
    /\ SeedFailed(1)
    /\ response.results[1] = ErrorResult(request.urls[1])

\* the tasks of session i that are inside scrape_details
InFlight(i) ==
    {j \in 1..Len(sessions[i].tasks) : sessions[i].tasks[j].pc = "fetching"}

(* C10: in every state of a session at most SEM_MAX_CONCURRENT (10)        *)
(* scrape_details calls are in flight, whatever the number of links.       *)
C10_BoundedInFlight ==
    \A i \in 1..Len(sessions) :
        /\ Cardinality(InFlight(i)) <= SEM_MAX_CONCURRENT
        /\ scrapers[i].semaphore = SEM_MAX_CONCURRENT - Cardinality(InFlight(i))

\* a page of more than ten links: ten calls are in flight and a task waits
C10_Witness ==
    \E i \in 1..Len(sessions) :
        /\ Len(sessions[i].links) > SEM_MAX_CONCURRENT
        /\ Cardinality(InFlight(i)) = SEM_MAX_CONCURRENT
        /\ \E j \in 1..Len(sessions[i].tasks) : sessions[i].tasks[j].pc = "waiting"

\* the get_html calls session i made for its seed URL
SeedFetches(i) ==
    {k \in 1..Len(fetched[i]) : fetched[i][k] = request.urls[i]}

(* C11: during one scrape(url) call get_html is invoked for the seed URL   *)
(* exactly once, and the links are those of the HTML that passed the       *)
(* non-empty seed check, the one the images were extracted from.           *)
C11_SeedFetchedOnce ==
    \A i \in 1..Len(sessions) :
        /\ Cardinality(SeedFetches(i)) <= 1
        /\ sessions[i].pc \in {"crawl", "done"} /\ sessions[i].html # "" =>
              sessions[i].links = LinksOf(sessions[i].html, request.urls[i], NoCap)

\* how many get_html calls session i made for url
FetchesOf(i, url) == Cardinality({k \in 1..Len(fetched[i]) : fetched[i][k] = url})

(* C20: when a session whose seed fetch succeeded completes, its results   *)
(* hold exactly one PageDetail per distinct extracted link, each link      *)
(* scraped exactly once and the detail's url equal to the link; every      *)
(* detail scrape has finished, and the semaphore is back at its full count *)
(* of 10.                                                                  *)
C20_SessionComplete ==
    \A i \in 1..Len(sessions) :
        (sessions[i].pc = "done" /\ sessions[i].html # "") =>
            LET links == sessions[i].links
                results == sessions[i].result.results
            IN  /\ \A j \in 1..Len(sessions[i].tasks) : sessions[i].tasks[j].pc = "done"
                /\ Len(sessions[i].tasks) = Len(links)
                /\ \A j, k \in 1..Len(links) : j # k => links[j] # links[k]
                /\ Len(results) = Len(links)
                /\ \A j \in 1..Len(links) :
                      /\ IsPageDetail(results[j])
                      /\ results[j].url = links[j]
                      /\ FetchesOf(i, links[j]) = 1
                /\ Len(fetched[i]) = 2 + Len(links)
                /\ scrapers[i].semaphore = SEM_MAX_CONCURRENT

\* a session on a page of more links than the semaphore admits has
\* completed, one of its details being that of a failed fetch
C20_Witness ==
    \E i \in 1..Len(sessions) :
        /\ sessions[i].pc = "done"
        /\ sessions[i].html # ""
        /\ Len(sessions[i].links) > SEM_MAX_CONCURRENT
        /\ Len(sessions[i].result.results) = Len(sessions[i].links)
        /\ \E j \in 1..Len(sessions[i].links) :
              sessions[i].result.results[j] = EmptyDetail(sessions[i].links[j])
        /\ \E j \in 1..Len(sessions[i].links) :
              sessions[i].result.results[j].raw_content # <<>>
        /\ response # None

----------------------------------------------------------------------------
(* A batch (SpecBatch). *)

\* what scrape(request.urls[i]) returns when it is the only call, given the
\* documents its own fetches came back with
AloneResult(i) ==
    LET url == request.urls[i]
        ses == sessions[i]
    IN  IF ses.html = "" THEN ErrorResult(url)
        ELSE [query |-> request.query,
              images |-> IF request.include_images THEN extract_images(ses.html, url)
                         ELSE <<>>,
              results |-> [j \in 1..Len(ses.links) |->
                             IF ses.tasks[j].html = "" THEN EmptyDetail(ses.links[j])
                             ELSE DetailOf(ses.links[j], ses.tasks[j].html, request.query)],
              response_time |-> 0]

(* C9: the response holds one result per requested URL, in request order;  *)
(* a URL whose fetch failed has the error as its own result, and every     *)
(* other URL's result is what it is when that URL is requested alone: each *)
(* session made its own fetches and none was touched by another's failure. *)
C9_BatchIsolation ==
    (response # None /\ "results" \in DOMAIN response) =>
        /\ Len(response.results) = Len(request.urls)
        /\ \A i \in 1..Len(request.urls) :
              /\ response.results[i] = AloneResult(i)
              /\ "error" \in DOMAIN response.results[i] <=> sessions[i].html = ""
              /\ fetched[i] = IF sessions[i].html = "" THEN <<request.urls[i]>>
                               ELSE <<request.urls[i], request.urls[i]>> \o sessions[i].links
              /\ DOMAIN scrapers[i].cache.cache \subseteq
                    {sessions[i].links[j] : j \in 1..Len(sessions[i].links)}

\* two URLs were requested, the first failed and the second came back with
\* the detail of a link
C9_Witness ==
    /\ response # None
    /\ "results" \in DOMAIN response
    /\ Len(request.urls) = 2
    /\ response.results[1] = ErrorResult(request.urls[1])
    /\ "results" \in DOMAIN response.results[2]
    /\ Len(response.results[2].results) = 1
    /\ response.results[2].results[1].raw_content # <<>>

(* C14: the result cache is shared by all scrapes: once a session has     *)
(* stored the PageDetail of a URL, no other session fetches that URL       *)
(* within the TTL; its scrape_details is answered from the cache.          *)
C14_SharedCache ==
    [][\A i \in 1..Len(sessions) : \A j \in 1..Len(sessions[i].tasks) :
          (/\ sessions[i].tasks[j].pc # "fetching"
           /\ sessions'[i].tasks[j].pc = "fetching")
          => ~ \E k \in 1..Len(scrapers) :
                   Live(scrapers[k].cache, sessions[i].links[j], now)]_vars

----------------------------------------------------------------------------
(* A session in race mode, task by task (SpecRace). *)

\* get_html has returned and no strategy had completed
ReturnedOnDeadline ==
    /\ gpc = "returned"
    /\ \A s \in Raced : tasks[s] \notin {"none", "done"}

(* C15: every get_html call in race mode eventually returns, released at   *)
(* the latest by the deadline even if no strategy ever completes; when it  *)
(* returns with no completed strategy the result is empty and every        *)
(* strategy task has been cancelled; and every scrape call eventually      *)
(* returns a result or an error value.                                     *)
C15_RaceTerminates ==
    /\ (gpc = "racing") ~> (gpc = "returned")
    /\ [](gpc = "racing" /\ elapsed => waiter = "released")
    /\ [](ReturnedOnDeadline =>
            /\ elapsed
            /\ result = EmptyHtml
            /\ \A s \in Raced : tasks[s] \in {"cancelling", "cancelled"})
    /\ (\E s \in Raced : tasks[s] = "cancelling")
          ~> (\A s \in Raced : tasks[s] # "cancelling")
    /\ (sessions # <<>>)
          ~> (\A i \in 1..Len(sessions) :
                sessions[i].pc = "done" /\ sessions[i].result # None)
    /\ (sessions # <<>>) ~> (response # None)

\* the seed fetch ran into the deadline with both strategies still running,
\* both were cancelled, and scrape has returned the error
C15_Witness ==
    /\ elapsed
    /\ result = EmptyHtml
    /\ \A s \in Raced : tasks[s] = "cancelled" /\ resp[s] # EmptyHtml
    /\ Len(sessions) = 1
    /\ sessions[1].pc = "done"
    /\ sessions[1].result = ErrorResult(request.urls[1])
    /\ response # None

----------------------------------------------------------------------------
(* The extractors alone (SpecExtract). *)

\* the links the anchors of a call stand for: resolved against the domain,
\* starting with it and without '#'
InternalLinks(c) ==
    {link \in {UrlJoin(c.domain, c.hrefs[k]) : k \in 1..Len(c.hrefs)} :
        StartsWith(link, c.domain) /\ ~Contains(link, "#")}

(* C17: the returned links hold no duplicate, each is an anchor reference  *)
(* resolved against the base that starts with the domain and contains no   *)
(* '#', all of these are returned when no cap is hit, and with a max_links *)
(* cap the number of returned links never exceeds max_links.               *)
C17_LinkExtraction ==
    \A i \in 1..Len(calls) :
        calls[i].op = "extract_links" =>
            LET c == calls[i]
                ret == c.ret
            IN  /\ \A a, b \in 1..Len(ret) : a # b => ret[a] # ret[b]
                /\ \A a \in 1..Len(ret) : ret[a] \in InternalLinks(c)
                /\ (~c.max_links.given \/ Cardinality(InternalLinks(c)) <= c.max_links.n)
                      => {ret[a] : a \in 1..Len(ret)} = InternalLinks(c)
                /\ c.max_links.given => Len(ret) <= c.max_links.n

\* full_url.lower() ends in .svg or contains 'logo' or 'icon'
Disallowed(url) ==
    LET lower_url == [k \in 1..Len(url) |-> Lower(url[k])]
    IN  \/ lower_url # <<>> /\ lower_url[Len(lower_url)] = ".svg"
        \/ Contains(lower_url, "logo")
        \/ Contains(lower_url, "icon")

\* the positions of the img elements of a call that qualify
Qualifying(c) ==
    {k \in 1..Len(c.imgs) : c.imgs[k].src /\ ~Disallowed(UrlJoin(c.base_url, c.imgs[k]))}

\* the last IMAGES_KEPT of them
LastQualifying(c) ==
    {k \in Qualifying(c) : Cardinality({q \in Qualifying(c) : q > k}) < IMAGES_KEPT}

(* C18: the images of a result are never more than 5, none of them ends    *)
(* (case-insensitively) in .svg or contains 'logo' or 'icon', they are the *)
(* last 5 (or fewer) qualifying images of the page in document order, and  *)
(* there is none when include_images is false.                             *)
C18_ImageExtraction ==
    \A i \in 1..Len(calls) :
        calls[i].op = "images" =>
            LET c == calls[i]
                ret == c.ret
            IN  /\ Len(ret) <= IMAGES_KEPT
                /\ \A a \in 1..Len(ret) : ~Disallowed(ret[a])
                /\ ~c.include_images => ret = <<>>
                /\ c.include_images =>
                      /\ Len(ret) = Cardinality(LastQualifying(c))
                      /\ \A k \in LastQualifying(c) :
                            ret[Cardinality({q \in LastQualifying(c) : q <= k})] =
                                UrlJoin(c.base_url, c.imgs[k])

\* a page with more than five qualifying images, its first and its last img
\* different: five are returned, the last of them the page's last image
C18_Witness ==
    \E i \in 1..Len(calls) :
        /\ calls[i].op = "images"
        /\ calls[i].include_images
        /\ Cardinality(Qualifying(calls[i])) > IMAGES_KEPT
        /\ calls[i].imgs[1] # calls[i].imgs[Len(calls[i].imgs)]
        /\ Len(calls[i].ret) = IMAGES_KEPT
        /\ calls[i].ret[IMAGES_KEPT] = UrlJoin(calls[i].base_url, calls[i].imgs[Len(calls[i].imgs)])

====
